---- MODULE Spec2Model ----
(***************************************************************************)
(* The ReAct agent graph of src/src/react_agent/graph.py: the two nodes    *)
(* call_model and tools (dynamic_tools_node), the conditional edge         *)
(* route_model_output, and the cycle tools -> call_model.                  *)
(***************************************************************************)
EXTENDS Integers, Sequences, FiniteSets, TLC

\* ------------------------------------------------------------------ bounds
\* Largest step budget a run is configured with.
MaxSteps == 3
\* Largest number of tool-call requests in one Assistant message.
MaxCalls == 2

\* ------------------------------------------------------------- vocabulary
\* The fixed content of graph.py line 61.
BudgetNotice == "Sorry, I could not find an answer to your question in the specified number of steps."

\* The tools a configuration can enable, and the configurations get_tools()
\* can resolve to.
ToolNames == {"calculator", "search"}
Configs == {{"calculator", "search"}, {"calculator"}}

\* Call identifiers the model tags its requests with.
CallIds == 1..MaxCalls

NoCalls == <<>>

Message(type, id, content, tool_calls, tool_call_id, name, status) ==
    [type |-> type, id |-> id, content |-> content, tool_calls |-> tool_calls,
     tool_call_id |-> tool_call_id, name |-> name, status |-> status]

HumanMessage(content) == Message("human", 0, content, NoCalls, 0, "", "")
SystemMessage(content) == Message("system", 0, content, NoCalls, 0, "", "")
AIMessage(id, content, tool_calls) == Message("ai", id, content, tool_calls, 0, "", "")
ToolMessage(content, name, tool_call_id, status) ==
    Message("tool", 0, content, NoCalls, tool_call_id, name, status)

\* The value of `response` while the model has not answered yet.
NoResponse == Message("none", 0, "", NoCalls, 0, "", "")

ToolCall(id, name) == [id |-> id, name |-> name]

Last(s) == s[Len(s)]

IsPrefix(s, t) == Len(s) <= Len(t) /\ SubSeq(t, 1, Len(s)) = s

\* Sequences of tool-call requests of length 1..MaxCalls over the offered
\* tools, every request carrying its own call identifier, in any order of the
\* identifiers.  To keep the input set small only the first request of a
\* batch varies over the offered tools; the others ask for the calculator.
CallBatches(offered) ==
    UNION { { b \in [1..n -> [id : CallIds, name : offered]] :
                /\ \A i, j \in 1..n : i # j => b[i].id # b[j].id
                /\ \A i \in 2..n : b[i].name = "calculator" } : n \in 1..MaxCalls }

\* What the model can answer when it is offered the tools `offered`: a final
\* answer, or a message requesting one or more of the offered tools.
Responses(id, offered) ==
    {AIMessage(id, "answer", NoCalls)}
      \cup {AIMessage(id, "", b) : b \in CallBatches(offered)}

\* Initial inputs of a run: empty, a single question, or a resumed history.
InitialInputs ==
    { <<>>,
      <<HumanMessage("2+2?")>>,
      <<HumanMessage("2+2?"),
        AIMessage(0, "", <<ToolCall(1, "calculator")>>),
        ToolMessage("4", "calculator", 1, "success")>> }

VARIABLES
    messages,        \* State.messages, the conversation history
    max_steps,       \* the run's step budget
    step,            \* the step counter
    pc,              \* where the graph is: the node or edge to run next
    error,           \* the exception raised in the run, or "none"
    registry,        \* what get_tools() currently resolves to
    bound,           \* the tools bound to the model by the running/last call_model
    sent,            \* the message list passed to model.ainvoke
    nodeTools,       \* the tools the running/last ToolNode was created with
    results,         \* per request of the running/last batch: its outcome so far
    completed,       \* the requests of that batch that were run, in completion order
    cancelled,       \* whether the external cancellation signal has fired
    routed,          \* the last value route_model_output returned
    modelResponse,   \* what the model.ainvoke of this cycle returned, NoResponse before
    initial,         \* the run's input messages
    modelCalls,      \* number of model.ainvoke calls started
    toolBatches,     \* number of ToolNode invocations started
    toolRuns         \* number of individual tool invocations completed

vars == <<messages, max_steps, step, pc, error, registry, bound, sent, nodeTools,
          results, completed, cancelled, routed, modelResponse, initial, modelCalls, toolBatches,
          toolRuns>>

\* ---------------------------------------------------------------- state
\* state.is_last_step: true when the step counter has reached the budget.
is_last_step == step = max_steps

\* The State object handed to a node or to the routing function.
State == [messages |-> messages, is_last_step |-> is_last_step]

\* A reducer that replaces the history by the node's return value.
add_messages_Replace(left, right) == right

\* The reducer of State.messages: a node's returned messages are appended.
add_messages(left, right) == left \o right

\* get_tools(): the currently configured tool set.
get_tools == registry

\* ----------------------------------------------------- node: call_model
\* A call_model that looks the tools up on the first invocation only and
\* binds the same set afterwards.
CallModelInvoke_Cached ==
    /\ pc = "call_model"
    /\ modelCalls <= MaxSteps
    /\ bound' = IF modelCalls = 0 THEN get_tools ELSE bound
    /\ sent' = <<SystemMessage("system_prompt")>> \o State.messages
    /\ modelCalls' = modelCalls + 1
    /\ modelResponse' = NoResponse
    /\ pc' = "model_wait"
    /\ UNCHANGED <<messages, max_steps, step, error, registry, nodeTools, results, completed,
                   cancelled, routed, initial, toolBatches, toolRuns>>

\* Lines 36-53: look the tools up, bind them, prepend the system message and
\* invoke the model.  The guard on modelCalls only keeps the state space
\* finite: it lets one invocation more than any budget happen.
CallModelInvoke ==
    /\ pc = "call_model"
    /\ modelCalls <= MaxSteps
    /\ bound' = get_tools
    /\ sent' = <<SystemMessage("system_prompt")>> \o State.messages
    /\ modelCalls' = modelCalls + 1
    /\ modelResponse' = NoResponse
    /\ pc' = "model_wait"
    /\ UNCHANGED <<messages, max_steps, step, error, registry, nodeTools, results, completed,
                   cancelled, routed, initial, toolBatches, toolRuns>>

\* call_model replacing every response of the last step by the notice.
call_model_AlwaysNotice(state, response) ==
    IF state.is_last_step
    THEN <<AIMessage(response.id, BudgetNotice, NoCalls)>>
    ELSE <<response>>

\* call_model returning the system message along with the response.
call_model_ReturnsPrompt(state, response) ==
    <<SystemMessage("system_prompt"), response>>

\* call_model returning no message when the budget is spent.
call_model_ReturnsNothing(state, response) ==
    IF state.is_last_step /\ response.tool_calls # NoCalls
    THEN <<>>
    ELSE <<response>>

\* call_model without the branch of lines 56-64.
call_model_NoRewrite(state, response) == <<response>>

\* call_model replacing the content on the last step but keeping the requests.
call_model_KeepsCalls(state, response) ==
    IF state.is_last_step /\ response.tool_calls # NoCalls
    THEN <<AIMessage(response.id, BudgetNotice, response.tool_calls)>>
    ELSE <<response>>

\* Lines 55-67: the messages call_model returns for the model's response.
call_model(state, response) ==
    IF state.is_last_step /\ response.tool_calls # NoCalls
    THEN <<AIMessage(response.id, BudgetNotice, NoCalls)>>
    ELSE <<response>>

\* model.ainvoke returns `response`; the node's return value is merged into
\* the state by the reducer.
CallModelReturn ==
    /\ pc = "model_wait"
    /\ \E r \in Responses(modelCalls, bound) :
          /\ messages' = add_messages(messages, call_model(State, r))
          /\ modelResponse' = r
    /\ pc' = "route"
    /\ UNCHANGED <<max_steps, step, error, registry, bound, sent, nodeTools, results, completed,
                   cancelled, routed, initial, modelCalls, toolBatches, toolRuns>>

\* A call_model that catches the failure of model.ainvoke and tries again.
CallModelFail_Retry ==
    /\ pc = "model_wait"
    /\ pc' = "call_model"
    /\ error' = "ModelInvocationFailure"
    /\ UNCHANGED <<messages, max_steps, step, registry, bound, sent, nodeTools, results, completed,
                   cancelled, routed, modelResponse, initial, modelCalls, toolBatches,
                   toolRuns>>

\* model.ainvoke raises: nothing in call_model catches it, the run fails.
CallModelFail ==
    /\ pc = "model_wait"
    /\ pc' = "error"
    /\ error' = "ModelInvocationFailure"
    /\ UNCHANGED <<messages, max_steps, step, registry, bound, sent, nodeTools, results, completed,
                   cancelled, routed, modelResponse, initial, modelCalls, toolBatches,
                   toolRuns>>

\* --------------------------------------------- edge: route_model_output
\* A routing function that also ends the run on the last permitted step.
route_model_output_Budget(state) ==
    IF state.messages = <<>> THEN "IndexError"
    ELSE IF Last(state.messages).type # "ai" THEN "ValueError"
    ELSE IF Last(state.messages).tool_calls = NoCalls \/ state.is_last_step THEN "__end__"
    ELSE "tools"

\* A routing function that ends the run after every Assistant message.
route_model_output_AlwaysEnd(state) ==
    IF state.messages = <<>> THEN "IndexError"
    ELSE IF Last(state.messages).type # "ai" THEN "ValueError"
    ELSE "__end__"

\* A routing function without the isinstance check of lines 115-118.
route_model_output_NoTypeCheck(state) ==
    IF state.messages = <<>> THEN "IndexError"
    ELSE IF Last(state.messages).tool_calls = NoCalls THEN "__end__"
    ELSE "tools"

\* Lines 103-123.  messages[-1] of an empty list raises IndexError.
route_model_output(state) ==
    IF state.messages = <<>> THEN "IndexError"
    ELSE IF Last(state.messages).type # "ai" THEN "ValueError"
    ELSE IF Last(state.messages).tool_calls = NoCalls THEN "__end__"
    ELSE "tools"

\* Lines 127-132: the conditional edge after call_model schedules the node
\* route_model_output names; an exception it raises ends the run.
Route ==
    /\ pc = "route"
    /\ LET r == route_model_output(State) IN
          /\ routed' = r
          /\ pc' = IF r \in {"__end__", "tools"}
                   THEN (IF r = "__end__" THEN "end" ELSE "tools")
                   ELSE "error"
          /\ error' = IF r \in {"__end__", "tools"} THEN error ELSE r
    /\ UNCHANGED <<messages, max_steps, step, registry, bound, sent, nodeTools, results, completed,
                   cancelled, modelResponse, initial, modelCalls, toolBatches, toolRuns>>

\* ------------------------------------------- node: tools (ToolNode)
\* ToolNode resolves each request of the last message by name among the tools
\* it was created with; a request naming none of them gets an error result
\* without any tool being run.
ToolNodeDispatch(state, tools) ==
    [i \in 1..Len(Last(state.messages).tool_calls) |->
        IF Last(state.messages).tool_calls[i].name \in tools THEN "pending" ELSE "invalid"]

\* The Tool Result message of one request, given how its invocation ended.
ToolResult(call, outcome) ==
    IF outcome = "ok"
    THEN ToolMessage("output", call.name, call.id, "success")
    ELSE IF outcome = "fail"
    THEN ToolMessage("Error: tool failed", call.name, call.id, "error")
    ELSE ToolMessage("Error: not a valid tool", call.name, call.id, "error")

\* ToolNode's output: one Tool Result message per request of the last
\* message, in request order.
ToolNodeOutput(state, outcomes) ==
    [i \in 1..Len(Last(state.messages).tool_calls) |->
        ToolResult(Last(state.messages).tool_calls[i], outcomes[i])]

\* dynamic_tools_node returning the results in the order the calls completed
\* (those that were not run last).
dynamic_tools_node_CompletionOrder(state, outcomes) ==
    LET n == Len(Last(state.messages).tool_calls)
        notRun == SelectSeq([i \in 1..n |-> i],
                            LAMBDA i : \A j \in DOMAIN completed : completed[j] # i)
        order == completed \o notRun
    IN [k \in 1..n |-> ToolNodeOutput(state, outcomes)[order[k]]]

\* dynamic_tools_node returning the first result only.
dynamic_tools_node_FirstOnly(state, outcomes) ==
    <<ToolNodeOutput(state, outcomes)[1]>>

\* dynamic_tools_node leaving out the results of the calls that failed.
dynamic_tools_node_DropFailed(state, outcomes) ==
    SelectSeq(ToolNodeOutput(state, outcomes), LAMBDA m : m.status # "error")

\* dynamic_tools_node returning the results in reverse order.
dynamic_tools_node_Reversed(state, outcomes) ==
    [i \in 1..Len(Last(state.messages).tool_calls) |->
        ToolNodeOutput(state, outcomes)[Len(Last(state.messages).tool_calls) + 1 - i]]

\* Lines 84-87: dynamic_tools_node returns ToolNode's result as it is.
dynamic_tools_node(state, outcomes) == ToolNodeOutput(state, outcomes)

\* The step counter after an acting phase.
next_step(s) == s + 1

\* Lines 78-85, up to the await of tool_node.ainvoke: look the tools up,
\* create the ToolNode and hand it the state.
ToolsDispatch ==
    /\ pc = "tools"
    /\ nodeTools' = get_tools
    /\ results' = ToolNodeDispatch(State, get_tools)
    /\ completed' = <<>>
    /\ toolBatches' = toolBatches + 1
    /\ pc' = "tools_wait"
    /\ UNCHANGED <<messages, max_steps, step, error, registry, bound, sent, cancelled,
                   routed, modelResponse, initial, modelCalls, toolRuns>>

\* One tool invocation of the batch completes, with an output or a failure;
\* the invocations of a batch complete in any order.
ToolComplete ==
    /\ pc = "tools_wait"
    /\ \E i \in DOMAIN results, outcome \in {"ok", "fail"} :
          /\ results[i] = "pending"
          /\ results' = [results EXCEPT ![i] = outcome]
          /\ completed' = Append(completed, i)
    /\ toolRuns' = toolRuns + 1
    /\ UNCHANGED <<messages, max_steps, step, pc, error, registry, bound, sent,
                   nodeTools, cancelled, routed, modelResponse, initial, modelCalls,
                   toolBatches>>

\* A tools node that does not wait for the batch: it returns what it has.
ToolsReturn_NoWait ==
    /\ pc = "tools_wait"
    /\ messages' = add_messages(messages, dynamic_tools_node(State, results))
    /\ step' = next_step(step)
    /\ pc' = "call_model"
    /\ UNCHANGED <<max_steps, error, registry, bound, sent, nodeTools, results, completed,
                   cancelled, routed, modelResponse, initial, modelCalls, toolBatches,
                   toolRuns>>

\* Lines 85-87 and the edge tools -> call_model of lines 134-136: the whole
\* batch has completed, its messages are appended and the model is next.
ToolsReturn ==
    /\ pc = "tools_wait"
    /\ \A i \in DOMAIN results : results[i] # "pending"
    /\ messages' = add_messages(messages, dynamic_tools_node(State, results))
    /\ step' = next_step(step)
    /\ pc' = "call_model"
    /\ UNCHANGED <<max_steps, error, registry, bound, sent, nodeTools, results, completed,
                   cancelled,
                   routed, modelResponse, initial, modelCalls, toolBatches, toolRuns>>

\* ------------------------------------------------------- environment
Terminal == {"end", "error"}

\* The caller's cancellation signal fires.  Nothing in graph.py reads it.
Cancel ==
    /\ pc \notin Terminal
    /\ ~cancelled
    /\ cancelled' = TRUE
    /\ UNCHANGED <<messages, max_steps, step, pc, error, registry, bound, sent,
                   nodeTools, results, completed, routed, modelResponse, initial, modelCalls,
                   toolBatches, toolRuns>>

\* The tool configuration changes while the run is in progress.
ChangeConfig ==
    /\ pc \notin Terminal
    /\ \E c \in Configs \ {registry} : registry' = c
    /\ UNCHANGED <<messages, max_steps, step, pc, error, bound, sent, nodeTools,
                   results, completed, cancelled, routed, modelResponse, initial, modelCalls,
                   toolBatches, toolRuns>>

\* ------------------------------------------------------ specification
\* Line 100: the run starts at call_model with the caller's input.
Init ==
    /\ messages \in InitialInputs
    /\ initial = messages
    /\ max_steps \in 1..MaxSteps
    /\ step = 1
    /\ pc = "call_model"
    /\ error = "none"
    /\ registry \in Configs
    /\ bound = {}
    /\ sent = <<>>
    /\ nodeTools = {}
    /\ results = <<>>
    /\ completed = <<>>
    /\ cancelled = FALSE
    /\ routed = "none"
    /\ modelResponse = NoResponse
    /\ modelCalls = 0
    /\ toolBatches = 0
    /\ toolRuns = 0

Next ==
    \/ CallModelInvoke
    \/ CallModelReturn
    \/ CallModelFail
    \/ Route
    \/ ToolsDispatch
    \/ ToolComplete
    \/ ToolsReturn
    \/ Cancel
    \/ ChangeConfig

Spec == Init /\ [][Next]_vars

\* The status the run entry point reports for the current state.
Status ==
    IF pc = "error" THEN "Failed"
    ELSE IF pc # "end" THEN "Running"
    ELSE IF is_last_step /\ modelResponse.tool_calls # NoCalls THEN "BudgetExceeded"
    ELSE "Completed"

\* The run's own steps, which are taken whenever they can be: every model
\* call and every tool call returns.
Run ==
    \/ CallModelInvoke
    \/ CallModelReturn
    \/ CallModelFail
    \/ Route
    \/ ToolsDispatch
    \/ ToolComplete
    \/ ToolsReturn

FairSpec == Spec /\ WF_vars(Run)

\* Routing driven by a caller, edge by edge: route_model_output is applied to
\* a state the caller hands it, whatever its last message is.
RouteMessages ==
    { HumanMessage("2+2?"),
      SystemMessage("system_prompt"),
      ToolMessage("4", "calculator", 1, "success"),
      AIMessage(0, "answer", NoCalls),
      AIMessage(0, "", <<ToolCall(1, "calculator")>>),
      AIMessage(0, "", <<ToolCall(2, "search"), ToolCall(1, "calculator")>>) }

RouteInputs ==
    {<<>>} \cup {<<m>> : m \in RouteMessages}
           \cup {<<m, n>> : m \in RouteMessages, n \in RouteMessages}

RouteInit ==
    /\ messages \in RouteInputs
    /\ initial = messages
    /\ max_steps \in 1..MaxSteps
    /\ step \in 1..max_steps
    /\ pc = "route"
    /\ error = "none"
    /\ registry \in Configs
    /\ bound = {}
    /\ sent = <<>>
    /\ nodeTools = {}
    /\ results = <<>>
    /\ completed = <<>>
    /\ cancelled = FALSE
    /\ routed = "none"
    /\ modelResponse = NoResponse
    /\ modelCalls = 0
    /\ toolBatches = 0
    /\ toolRuns = 0

RouteNext == Route

RouteSpec == RouteInit /\ [][RouteNext]_vars

\* ================================================================ claims

\* The response of the reasoning invocation at which is_last_step is true
\* carries tool-call requests.
BudgetCase ==
    /\ pc \in {"route", "tools", "tools_wait", "end", "error"}
    /\ is_last_step
    /\ modelResponse.tool_calls # NoCalls

\* C1: when the reasoning invocation at which the step counter has reached
\* max_steps returns tool-call requests, the run can only end, with status
\* BudgetExceeded; exactly one message was appended in that cycle, an
\* Assistant message without requests whose content is the fixed notice; and
\* no tool batch was started for the discarded requests.
C1_BudgetExceeded ==
    BudgetCase =>
        /\ pc \in {"route", "end"}
        /\ pc = "route" => route_model_output(State) = "__end__"
        /\ pc = "end" => Status = "BudgetExceeded"
        /\ Len(messages) = Len(sent)
        /\ SubSeq(messages, 1, Len(messages) - 1) = Tail(sent)
        /\ Last(messages) = AIMessage(modelResponse.id, BudgetNotice, NoCalls)
        /\ toolBatches = modelCalls - 1

\* max_steps = 1, one Human message, the only call requests a tool: the run
\* has ended with 2 messages.
C1_Witness ==
    /\ BudgetCase
    /\ pc = "end"
    /\ max_steps = 1
    /\ initial = <<HumanMessage("2+2?")>>
    /\ Len(messages) = 2

\* C2: every run reaches a terminal state whatever the model returns, and
\* the number of reasoning invocations never exceeds max_steps.
C2_Terminates == [](modelCalls <= max_steps) /\ <>(pc \in Terminal)

\* A run whose every invocation requested tools, ended after max_steps calls.
C2_Witness ==
    /\ pc = "end"
    /\ max_steps = MaxSteps
    /\ modelCalls = MaxSteps
    /\ modelResponse.tool_calls # NoCalls

\* The Assistant message at position i requests tools.
RequestsTools(i) == messages[i].type = "ai" /\ messages[i].tool_calls # NoCalls

\* The requests of the message at position i are answered: it is followed by
\* one Tool Result per request, with the request's identifier, in request
\* order, and what follows them is an Assistant message.
Answered(i) ==
    LET calls == messages[i].tool_calls
        n == Len(calls)
    IN /\ i + n <= Len(messages)
       /\ \A k \in 1..n : /\ messages[i + k].type = "tool"
                          /\ messages[i + k].tool_call_id = calls[k].id
       /\ i + n + 1 <= Len(messages) => messages[i + n + 1].type = "ai"

\* The acting phase for the message at position i has not completed yet.
ActingPending(i) == i = Len(messages) /\ pc \in {"route", "tools", "tools_wait"}

\* C3: every Assistant message with requests that the run appended, once its
\* acting phase has completed, is immediately followed by exactly one Tool
\* Result per request, matching the identifiers in request order, and then
\* by an Assistant message if by anything.
C3_ResultsFollowRequests ==
    \A i \in (Len(initial) + 1)..Len(messages) :
        (RequestsTools(i) /\ ~ActingPending(i)) => Answered(i)

\* A batch of two requests with identifiers 2, 1 was answered and the model
\* was invoked again.
C3_Witness ==
    \E i \in (Len(initial) + 1)..Len(messages) :
        /\ RequestsTools(i)
        /\ Len(messages[i].tool_calls) = 2
        /\ messages[i].tool_calls[1].id = 2
        /\ messages[i].tool_calls[2].id = 1
        /\ Len(messages) >= i + 3

\* C4: the message sequence is append-only: every transition leaves the old
\* sequence a prefix of the new one, so the history always starts with the
\* run's input and is at least as long.
C4_AppendOnly ==
    /\ [][IsPrefix(messages, messages')]_vars
    /\ [](IsPrefix(initial, messages) /\ Len(messages) >= Len(initial))

\* A run that appended in a reasoning step and in an acting step has ended.
C4_Witness ==
    /\ pc \in Terminal
    /\ toolBatches >= 1
    /\ Len(messages) >= Len(initial) + 3

\* C5: the route is decided by the last message alone: an Assistant message
\* without requests routes to the end, one with requests to the tools,
\* whatever the earlier messages and the step counter are; and routing
\* leaves the history as it was.
C5_RouteByLastMessage ==
    (pc # "route" /\ messages # <<>> /\ Last(messages).type = "ai") =>
        /\ messages = initial
        /\ Last(messages).tool_calls = NoCalls => (routed = "__end__" /\ pc = "end")
        /\ Last(messages).tool_calls # NoCalls => (routed = "tools" /\ pc = "tools")
        /\ routed = route_model_output([messages |-> <<Last(messages)>>,
                                        is_last_step |-> ~is_last_step])

\* Routing to the tools on the last permitted step, after an earlier message.
C5_Witness ==
    /\ pc = "tools"
    /\ routed = "tools"
    /\ is_last_step
    /\ Len(messages) = 2
    /\ messages[1].type = "tool"

\* C6: routing on a state whose last message is not an Assistant message
\* yields the error and no route: nothing is scheduled, no tool runs and no
\* message is appended.
C6_InvalidState ==
    (pc # "route" /\ messages # <<>> /\ Last(messages).type # "ai") =>
        /\ pc = "error"
        /\ error = "ValueError"
        /\ routed \notin {"__end__", "tools"}
        /\ messages = initial
        /\ toolBatches = 0
        /\ toolRuns = 0

\* Routing was invoked on a history ending in a Tool Result message.
C6_Witness ==
    /\ pc = "error"
    /\ error = "ValueError"
    /\ Last(messages).type = "tool"

\* From position i on, the history is a sequence of answered request
\* messages that ends with one Assistant message without requests.
RECURSIVE CyclesThenAnswer(_)
CyclesThenAnswer(i) ==
    IF i > Len(messages) \/ messages[i].type # "ai" THEN FALSE
    ELSE IF messages[i].tool_calls = NoCalls THEN i = Len(messages)
    ELSE /\ Answered(i)
         /\ CyclesThenAnswer(i + Len(messages[i].tool_calls) + 1)

\* The number of Tool Result messages the run appended.
RECURSIVE ToolResultsFrom(_)
ToolResultsFrom(i) ==
    IF i > Len(messages) THEN 0
    ELSE (IF messages[i].type = "tool" THEN 1 ELSE 0) + ToolResultsFrom(i + 1)

\* C7: a run that ends Completed after k acting cycles (k < max_steps) holds
\* exactly the input, then per cycle the Assistant message and its Tool
\* Results in request order, then the model's final answer as returned.
C7_CompletedHistory ==
    Status = "Completed" =>
        /\ IsPrefix(initial, messages)
        /\ CyclesThenAnswer(Len(initial) + 1)
        /\ Last(messages) = modelResponse
        /\ toolBatches = modelCalls - 1
        /\ toolBatches < max_steps
        /\ Len(messages) = Len(initial) + modelCalls + ToolResultsFrom(Len(initial) + 1)

\* One Human message, one tool call, then the answer: 4 messages.
C7_Witness ==
    /\ Status = "Completed"
    /\ initial = <<HumanMessage("2+2?")>>
    /\ max_steps = MaxSteps
    /\ Len(messages) = 4
    /\ messages[2].type = "ai" /\ Len(messages[2].tool_calls) = 1
    /\ messages[3].type = "tool" /\ messages[3].status = "success"
    /\ messages[4].type = "ai" /\ messages[4].tool_calls = NoCalls

\* C8: once the cancellation signal has fired, no further model call and no
\* further tool batch is started.
C8_CancellationHonored ==
    [][cancelled => (modelCalls' = modelCalls /\ toolBatches' = toolBatches)]_vars

\* The number of appended Tool Results that come from running a tool.
RECURSIVE RunResultsFrom(_)
RunResultsFrom(i) ==
    IF i > Len(messages) THEN 0
    ELSE (IF messages[i].type = "tool" /\ messages[i].content # "Error: not a valid tool"
          THEN 1 ELSE 0) + RunResultsFrom(i + 1)

\* C9: a batch in which any subset of the calls failed still yields exactly
\* one Tool Result per request, the failed ones marked as errors and the
\* others carrying their output; the run does not fail, every call
\* that was run was run once, and the model is invoked next with the results in its input.
C9_ToolFailureAbsorbed ==
    (pc \in {"call_model", "model_wait"} /\ toolBatches >= 1) =>
        LET n == Len(results)
            base == Len(messages) - n
        IN /\ error = "none"
           /\ base >= 1
           /\ messages[base].type = "ai"
           /\ Len(messages[base].tool_calls) = n
           /\ \A k \in 1..n :
                 /\ messages[base + k].type = "tool"
                 /\ messages[base + k].tool_call_id = messages[base].tool_calls[k].id
                 /\ (messages[base + k].status = "error") = (results[k] # "ok")
                 /\ results[k] = "ok" => messages[base + k].content = "output"
           /\ toolRuns = RunResultsFrom(Len(initial) + 1)
           /\ pc = "model_wait" => Tail(sent) = messages

\* The first call of a batch of two failed, the second did not, and the
\* model has been invoked with both results.
C9_Witness ==
    /\ pc = "model_wait"
    /\ toolBatches >= 1
    /\ Len(results) = 2
    /\ results[1] = "fail"
    /\ results[2] = "ok"

\* C10: when model.ainvoke fails the run has failed: the history is the one
\* the model was called with, no response was appended, and no model or
\* tool invocation can follow.
C10_ModelFailure ==
    error = "ModelInvocationFailure" =>
        /\ pc = "error"
        /\ Status = "Failed"
        /\ messages = Tail(sent)
        /\ modelResponse = NoResponse
        /\ ~ENABLED Run

\* The second reasoning invocation of a run failed, after a tool batch.
C10_Witness ==
    /\ error = "ModelInvocationFailure"
    /\ modelCalls = 2
    /\ Last(messages).type = "tool"

\* C11: whatever order the invocations of a batch complete in, nothing is
\* appended while the batch is running, and what is appended afterwards is
\* the result of each request in request order: the appended sequence is
\* determined by the requests and their outcomes alone.
C11_RequestOrder ==
    /\ pc = "tools_wait" => (RequestsTools(Len(messages)) /\ Len(messages) = Len(sent))
    /\ (pc \in {"call_model", "model_wait"} /\ toolBatches >= 1) =>
          LET n == Len(results)
              base == Len(messages) - n
          IN /\ base >= 1
             /\ Len(messages[base].tool_calls) = n
             /\ \A k \in 1..n :
                   messages[base + k] = ToolResult(messages[base].tool_calls[k], results[k])

\* The second request of a batch completed before the first, with different
\* outcomes, and the results have been appended.
C11_Witness ==
    /\ pc = "call_model"
    /\ toolBatches >= 1
    /\ completed = <<2, 1>>
    /\ results[1] # results[2]

\* C12: every reasoning invocation happens at its own value of the step
\* counter, which never passes max_steps, so is_last_step holds for at most
\* one invocation and no reasoning or acting phase follows it; and what an
\* invocation with is_last_step appends is never a message with requests,
\* so none is dispatched to the tools.
C12_LastStepIsFinal ==
    /\ step <= max_steps
    /\ pc = "call_model" => modelCalls = step - 1
    /\ pc \in {"model_wait", "route", "tools", "tools_wait", "end"} => modelCalls = step
    /\ pc \in {"tools", "tools_wait"} => ~is_last_step
    /\ (is_last_step /\ pc \in {"route", "end"}) => Last(messages).tool_calls = NoCalls

\* The invocation with is_last_step was the third of the run, asked for
\* tools, and the run has ended.
C12_Witness ==
    /\ pc = "end"
    /\ is_last_step
    /\ max_steps = MaxSteps
    /\ modelCalls = MaxSteps
    /\ modelResponse.tool_calls # NoCalls

\* A model call is in flight; a tool invocation of a batch is in flight.
ModelInFlight == pc = "model_wait"
BatchInFlight == \E i \in DOMAIN results : results[i] = "pending"

\* C13: a model call and a tool batch are never in flight together; the
\* model is called again only when every call of the preceding batch has
\* completed and its results are appended; and a batch is only ever started
\* for the response of the reasoning phase just before it.
C13_PhasesAlternate ==
    /\ ~(ModelInFlight /\ BatchInFlight)
    /\ toolBatches <= modelCalls
    /\ modelCalls <= toolBatches + 1
    /\ (ModelInFlight /\ toolBatches >= 1) =>
          /\ modelCalls = toolBatches + 1
          /\ Len(sent) > Len(results) + 1
          /\ \A k \in 1..Len(results) :
                sent[Len(sent) - Len(results) + k].type = "tool"
    /\ pc = "tools_wait" =>
          /\ modelCalls = toolBatches
          /\ routed = "tools"
          /\ modelResponse # NoResponse
          /\ Last(messages) = modelResponse

\* The third model call of a run is in flight, after two batches.
C13_Witness ==
    /\ ModelInFlight
    /\ modelCalls = 3
    /\ toolBatches = 2

\* C14: the model is never invoked with an empty history, that is, with the
\* system message alone.
C14_NonEmptyHistory == pc = "model_wait" => Len(sent) > 1

\* C15: every reasoning invocation binds the tool set the registry resolves
\* to at that invocation, never a set kept from an earlier cycle.
C15_FreshLookup == [][modelCalls' # modelCalls => bound' = registry]_vars

\* The first invocation offered the search tool (the model asked for it);
\* the second one, after the configuration changed, offers the calculator
\* only.
C15_Witness ==
    /\ pc = "model_wait"
    /\ modelCalls = 2
    /\ bound = {"calculator"}
    /\ \E i \in (Len(initial) + 1)..Len(messages) :
          /\ RequestsTools(i)
          /\ messages[i].tool_calls[1].name = "search"

\* C16: a run that has ended holds the notice in place of the model's last
\* response exactly when that response came on the last permitted step and
\* carried requests, and then its status is BudgetExceeded; a response
\* without requests on the last permitted step is appended as it is and the
\* status is Completed.
C16_BudgetExceededIff ==
    pc = "end" =>
        /\ (Last(messages) # modelResponse) = (is_last_step /\ modelResponse.tool_calls # NoCalls)
        /\ (Status = "BudgetExceeded") = (Last(messages) # modelResponse)
        /\ Last(messages) # modelResponse =>
              Last(messages) = AIMessage(modelResponse.id, BudgetNotice, NoCalls)
        /\ Last(messages) = modelResponse => Status = "Completed"

\* The model answered without requests on the last permitted step of a run
\* with two acting phases.
C16_Witness ==
    /\ pc = "end"
    /\ is_last_step
    /\ toolBatches = 2
    /\ modelResponse.tool_calls = NoCalls
    /\ Last(messages).content = "answer"
    /\ Status = "Completed"

\* C17: the run appends Assistant and Tool Result messages only, never the
\* system message; and every reasoning invocation sends one system message
\* followed by the whole current history in order.
C17_SystemNotPersisted ==
    /\ \A i \in (Len(initial) + 1)..Len(messages) : messages[i].type \in {"ai", "tool"}
    /\ \A i \in 1..Len(messages) : messages[i].type # "system"
    /\ pc = "model_wait" =>
          /\ sent[1].type = "system"
          /\ Tail(sent) = messages
          /\ \A i \in 2..Len(sent) : sent[i].type # "system"

\* The second invocation of a run is in flight, with the first response and
\* its results in its input.
C17_Witness ==
    /\ pc = "model_wait"
    /\ modelCalls = 2
    /\ Len(sent) >= Len(initial) + 3

\* C18: the tools a batch is executed with are the tools that were bound to
\* the model when it requested the batch, so every request names a tool the
\* executor knows.
C18_SameToolSet ==
    pc = "tools_wait" =>
        /\ nodeTools = bound
        /\ \A i \in DOMAIN results : results[i] # "invalid"

\* C19: in a run driven by the graph, routing is only ever evaluated on a
\* history whose last message is the Assistant message the reasoning step
\* has just appended, so it never raises.
C19_RoutingOnAssistant ==
    /\ pc = "route" =>
          /\ messages # <<>>
          /\ Len(messages) = Len(sent)
          /\ Last(messages).type = "ai"
          /\ Last(messages).id = modelResponse.id
    /\ error \notin {"ValueError", "IndexError"}
    /\ routed \in {"none", "__end__", "tools"}

\* A run started on the empty input has been routed.
C19_Witness ==
    /\ initial = <<>>
    /\ routed # "none"
    /\ pc \in {"end", "tools"}

\* C20: a run that has ended without an error holds a non-empty history
\* whose last message is an Assistant message without requests.
C20_CleanEnd ==
    pc = "end" =>
        /\ Status \in {"Completed", "BudgetExceeded"}
        /\ messages # <<>>
        /\ Last(messages).type = "ai"
        /\ Last(messages).tool_calls = NoCalls

\* A run has ended with status BudgetExceeded after an acting phase.
C20_Witness ==
    /\ pc = "end"
    /\ Status = "BudgetExceeded"
    /\ toolBatches >= 1

====
